---- MODULE Spec2Model ----
(***************************************************************************)
(* Cortex Slack bot: the warehouse/agent client (snowflake_client.py),     *)
(* the chat event handlers (handlers.py) and the process bootstrap         *)
(* (app.py), as one state machine.                                         *)
(*                                                                         *)
(* Text is a TLA+ string.  An optional value (Python's "x | None") is a    *)
(* sequence of length at most one: None is << >>, a present value v is     *)
(* << v >>.                                                                *)
(***************************************************************************)
EXTENDS Integers, Sequences, FiniteSets, TLC

\* ------------------------------------------------------------------ bounds
\* The number of warehouse connections the client may open in one run.
MaxConns == 3
\* The number of chat events the handlers serve in one run.
MaxEvents == 2
\* The entries stored for one thread up to which a long conversation in that
\* thread is followed.
MaxThreadTurns == 24

\* --------------------------------------------------------------- optionals
None == << >>
Some(v) == << v >>
Get(o) == o[1]

\* Python truthiness of an optional string: None and "" are both falsy.
Truthy(o) == o # None /\ Get(o) # ""
\* Python truthiness of a string and of a list.
TruthyStr(s) == s # ""
TruthyList(l) == Len(l) > 0

\* --------------------------------------------------------------- QueryResult
NewQueryResult(answer, sql, data, error) ==
    [answer |-> answer, sql |-> sql, data |-> data, error |-> error]

success(result) == result.error = None

\* ------------------------------------------------------------------ settings
\* SnowflakeSettings.pat: the personal-access credential of the settings.
Pat == [kind |-> "pat", conn |-> 0]
\* The value SELECT SYSTEM$GENERATE_JWT_TOKEN() yields on connection c.
Jwt(c) == [kind |-> "jwt", conn |-> c]

AgentUrl == "https://acct.snowflakecomputing.com/api/v2/databases/DB/schemas/SC/agents/agent:run"

TokenStatement == "SELECT SYSTEM$GENERATE_JWT_TOKEN()"

\* ------------------------------------------------------- client state frames
\* The client and the warehouse it talks to:
\*   connection     CortexClient._connection: None or the id of a connection
\*   session_token  CortexClient._session_token: None or a token
\*   conns          every connection the client opened, by id: whether the
\*                  warehouse still has it open, and how often close() was
\*                  called on it
\* A frame is what a method leaves behind: the new client state (c), the
\* exception it raised if any (raised), its return value (value), and what it
\* did to the warehouse on the way.
Frame(c, raised, value, connects, statements, cursorsObtained, cursorsClosed) ==
    [c |-> c, raised |-> raised, value |-> value, connects |-> connects,
     statements |-> statements, cursorsObtained |-> cursorsObtained,
     cursorsClosed |-> cursorsClosed]

is_closed(c, id) == ~c.conns[id].open

\* A connect branch without the reuse test: every access reconnects.
MustConnect_always(c) == TRUE

\* A connect branch that tests only for a missing connection.
MustConnect_noneOnly(c) == c.connection = None

\* Whether _get_connection takes the connect branch.
MustConnect(c) == c.connection = None \/ is_closed(c, Get(c.connection))

\* _get_connection: connectOk is whether snowflake.connector.connect succeeds.
get_connection(c, connectOk) ==
    IF MustConnect(c)
    THEN IF connectOk
         THEN Frame([c EXCEPT !.conns = Append(@, [open |-> TRUE, closes |-> 0]),
                              !.connection = Some(Len(c.conns) + 1),
                              !.session_token = None],
                    None, Some(Len(c.conns) + 1), 1, << >>, 0, 0)
         ELSE Frame(c, Some("connect failed"), None, 1, << >>, 0, 0)
    ELSE Frame(c, None, c.connection, 0, << >>, 0, 0)

\* What the warehouse does while a token is generated: whether connecting
\* succeeds, whether the statement executes, whether fetchone() has a row.  A
\* step is consulted only if the steps before it succeed.
TokenEnvs ==
    {[connect |-> TRUE, execute |-> TRUE, row |-> TRUE],
     [connect |-> FALSE, execute |-> TRUE, row |-> TRUE],
     [connect |-> TRUE, execute |-> FALSE, row |-> TRUE],
     [connect |-> TRUE, execute |-> TRUE, row |-> FALSE]}

\* Lines 54-61 on the connection frame g that line 53 obtained.
TokenOn(g, env) ==
    IF g.raised # None THEN g
    ELSE IF ~env.execute
         THEN \* cursor.execute raises: line 61 is never reached
              Frame(g.c, Some("statement failed"), None, g.connects,
                    << TokenStatement >>, 1, 0)
    ELSE IF ~env.row
         THEN \* fetchone() returned nothing: RuntimeError before line 61
              Frame(g.c, Some("Failed to generate session token"), None,
                    g.connects, << TokenStatement >>, 1, 0)
    ELSE Frame([g.c EXCEPT !.session_token = Some(Jwt(Get(g.value)))],
               None, Some(Jwt(Get(g.value))), g.connects,
               << TokenStatement >>, 1, 1)

\* _get_session_token.
get_session_token(c, env) ==
    IF c.session_token = None
    THEN TokenOn(get_connection(c, env.connect), env)
    ELSE Frame(c, None, c.session_token, 0, << >>, 0, 0)

\* ------------------------------------------------------- decoded JSON bodies
\* A decoded JSON value is a record tagged with its Python type.
JNull == [k |-> "null"]
JStr(s) == [k |-> "str", s |-> s]
JNum(n) == [k |-> "num", n |-> n]
JArr(a) == [k |-> "arr", a |-> a]
JObj(f) == [k |-> "obj", f |-> f]

PyTypeName(node) ==
    CASE node.k = "null" -> "NoneType"
      [] node.k = "str" -> "str"
      [] node.k = "num" -> "int"
      [] node.k = "arr" -> "list"
      [] node.k = "obj" -> "dict"

\* dict.get(key, default); only a dict has .get.
HasGet(node) == node.k = "obj"
DictGet(node, key, default) ==
    IF key \in DOMAIN node.f THEN node.f[key] ELSE default
NoGetError(node) ==
    "'" \o PyTypeName(node) \o "' object has no attribute 'get'"

RECURSIVE SetToSeq(_)
SetToSeq(S) ==
    IF S = {} THEN << >>
    ELSE LET x == CHOOSE y \in S : TRUE IN << x >> \o SetToSeq(S \ {x})

\* "for x in node": a list yields its elements, a string its characters, a
\* dict its keys; None and numbers are not iterable.
Iterable(node) == node.k \in {"arr", "str", "obj"}
Elems(node) ==
    CASE node.k = "arr" -> node.a
      [] node.k = "str" -> [i \in 1..Len(node.s) |-> JStr(SubSeq(node.s, i, i))]
      [] node.k = "obj" -> [i \in 1..Len(SetToSeq(DOMAIN node.f)) |->
                               JStr(SetToSeq(DOMAIN node.f)[i])]
NotIterableError(node) ==
    "'" \o PyTypeName(node) \o "' object is not iterable"

IsStr(node, s) == node.k = "str" /\ node.s = s

\* ------------------------------------------------------------- str methods
Whitespace == {" ", "\t", "\n", "\r"}

RECURSIVE LStrip(_)
LStrip(s) ==
    IF s # "" /\ Head(s) \in Whitespace THEN LStrip(Tail(s)) ELSE s

RECURSIVE RStrip(_)
RStrip(s) ==
    IF s # "" /\ SubSeq(s, Len(s), Len(s)) \in Whitespace
    THEN RStrip(SubSeq(s, 1, Len(s) - 1))
    ELSE s

\* str.strip()
Strip(s) == RStrip(LStrip(s))

\* sep.join(parts), parts a sequence of strings
RECURSIVE Join(_, _)
Join(sep, parts) ==
    IF Len(parts) = 0 THEN ""
    ELSE IF Len(parts) = 1 THEN parts[1]
    ELSE parts[1] \o sep \o Join(sep, Tail(parts))

\* --------------------------------------------------------- _parse_response
\* The accumulator of the parsing loops: the exception raised so far (err),
\* answer_parts, sql_query and data (JSON values; JNull is None).
ParseStart ==
    [err |-> None, parts |-> << >>, sql |-> JNull, data |-> JArr(<< >>)]

\* One entry of a tool_results list (lines 134-137).
ParseToolResult(acc, result) ==
    IF ~HasGet(result) THEN [acc EXCEPT !.err = Some(NoGetError(result))]
    ELSE IF ~IsStr(DictGet(result, "tool_name", JNull), "analyst") THEN acc
    ELSE LET result_content == DictGet(result, "content", JObj(<< >>)) IN
         IF ~HasGet(result_content)
         THEN [acc EXCEPT !.err = Some(NoGetError(result_content))]
         ELSE [acc EXCEPT !.sql = DictGet(result_content, "sql", JNull),
                          !.data = DictGet(result_content, "data", JArr(<< >>))]

RECURSIVE ParseToolResults(_, _)
ParseToolResults(acc, results) ==
    IF acc.err # None \/ Len(results) = 0 THEN acc
    ELSE ParseToolResults(ParseToolResult(acc, Head(results)), Tail(results))

\* One content item (lines 126-137).
ParseItem(acc, item) ==
    IF ~HasGet(item) THEN [acc EXCEPT !.err = Some(NoGetError(item))]
    ELSE LET item_type == DictGet(item, "type", JStr("")) IN
         IF IsStr(item_type, "text")
         THEN [acc EXCEPT !.parts = Append(@, DictGet(item, "text", JStr("")))]
         ELSE IF IsStr(item_type, "tool_results")
         THEN LET tool_results == DictGet(item, "tool_results", JArr(<< >>)) IN
              IF ~Iterable(tool_results)
              THEN [acc EXCEPT !.err = Some(NotIterableError(tool_results))]
              ELSE ParseToolResults(acc, Elems(tool_results))
         ELSE acc

RECURSIVE ParseItems(_, _)
ParseItems(acc, items) ==
    IF acc.err # None \/ Len(items) = 0 THEN acc
    ELSE ParseItems(ParseItem(acc, Head(items)), Tail(items))

\* One message without the role test of line 121.
ParseMessage_anyRole(acc, message) ==
    IF ~HasGet(message) THEN [acc EXCEPT !.err = Some(NoGetError(message))]
    ELSE LET content == DictGet(message, "content", JArr(<< >>)) IN
         IF ~Iterable(content)
         THEN [acc EXCEPT !.err = Some(NotIterableError(content))]
         ELSE ParseItems(acc, Elems(content))

\* One message (lines 121-125).
ParseMessage(acc, message) ==
    IF ~HasGet(message) THEN [acc EXCEPT !.err = Some(NoGetError(message))]
    ELSE IF ~IsStr(DictGet(message, "role", JNull), "assistant") THEN acc
    ELSE LET content == DictGet(message, "content", JArr(<< >>)) IN
         IF ~Iterable(content)
         THEN [acc EXCEPT !.err = Some(NotIterableError(content))]
         ELSE ParseItems(acc, Elems(content))

RECURSIVE ParseMessages(_, _)
ParseMessages(acc, messages) ==
    IF acc.err # None \/ Len(messages) = 0 THEN acc
    ELSE ParseMessages(ParseMessage(acc, Head(messages)), Tail(messages))

\* The loops of lines 115-137 over a decoded body.
ParseLoops(response) ==
    IF ~HasGet(response)
    THEN [ParseStart EXCEPT !.err = Some(NoGetError(response))]
    ELSE LET messages == DictGet(response, "messages", JArr(<< >>)) IN
         IF ~Iterable(messages)
         THEN [ParseStart EXCEPT !.err = Some(NotIterableError(messages))]
         ELSE ParseMessages(ParseStart, Elems(messages))

\* "\n".join(answer_parts) raises on the first part that is not a string.
BadParts(parts) == {i \in 1..Len(parts) : parts[i].k # "str"}
FirstBad(parts) == CHOOSE i \in BadParts(parts) : \A j \in BadParts(parts) : i <= j
JoinError(parts) ==
    "sequence item " \o ToString(FirstBad(parts) - 1) \o ": expected str instance, "
    \o PyTypeName(parts[FirstBad(parts)]) \o " found"

\* The sql and data of a QueryResult, from the JSON values collected.
SqlOf(node) == IF node.k = "str" THEN Some(node.s) ELSE None
DataOf(node) == IF node.k = "arr" THEN node.a ELSE << >>

ParseError(msg) ==
    NewQueryResult("", None, << >>, Some("Failed to parse response: " \o msg))

\* _parse_response
parse_response(response) ==
    LET acc == ParseLoops(response) IN
    IF acc.err # None THEN ParseError(Get(acc.err))
    ELSE IF BadParts(acc.parts) # {} THEN ParseError(JoinError(acc.parts))
    ELSE NewQueryResult(
             Strip(Join("\n", [i \in 1..Len(acc.parts) |-> acc.parts[i].s])),
             SqlOf(acc.sql), DataOf(acc.data), None)

\* ------------------------------------------------ the agent endpoint's replies
TextItem(t) == JObj([type |-> JStr("text"), text |-> JStr(t)])
AnalystResult(content) ==
    JObj([tool_name |-> JStr("analyst"), content |-> JObj(content)])
ToolResultsItem(results) ==
    JObj([type |-> JStr("tool_results"), tool_results |-> JArr(results)])
Message(role, items) == JObj([role |-> JStr(role), content |-> JArr(items)])
Row(id, name) == JObj([id |-> JStr(id), name |-> JStr(name)])

\* Decoded bodies the endpoint may answer with: the bodies of
\* tests/test_snowflake_client.py, the shape of a top-level content array, and
\* malformed ones.
Responses == <<
    JObj([messages |-> JArr(<< Message("assistant",
              << TextItem("There are 100 users.") >>) >>)]),
    JObj([messages |-> JArr(<< Message("assistant",
              << TextItem("Found 2 users."),
                 ToolResultsItem(<< AnalystResult(
                     [sql |-> JStr("SELECT * FROM users LIMIT 2"),
                      data |-> JArr(<< Row("1", "Alice"), Row("2", "Bob") >>)]) >>)
              >>) >>)]),
    JObj([messages |-> JArr(<< >>)]),
    JObj([content |-> JArr(<< TextItem("Found 2 users.") >>)]),
    JArr(<< TextItem("Found 2 users.") >>),
    JObj([messages |-> JNull]),
    JObj([messages |-> JArr(<< Message("user", << TextItem("hello") >>),
                               Message("assistant",
              << TextItem(" a"), TextItem("b \n") >>) >>)]),
    JObj([messages |-> JArr(<< Message("assistant",
              << ToolResultsItem(<< AnalystResult([sql |-> JStr("SELECT 1")]),
                                    AnalystResult([data |-> JArr(<< Row("1", "Alice") >>)])
                                 >>) >>) >>)]),
    JObj([messages |-> JArr(<< Message("assistant",
              << JObj([type |-> JStr("text"), text |-> JNull]) >>) >>)]),
    JObj([messages |-> JArr(<< Message("assistant",
              << ToolResultsItem(<< AnalystResult([sql |-> JStr("SELECT 1")]),
                                    AnalystResult([sql |-> JStr("SELECT 2")])
                                 >>) >>) >>)]),
    JObj([content |-> JArr(<< TextItem(" a"), TextItem("b \n") >>)])
>>

\* What the HTTP exchange does: a 2xx reply whose body decodes to
\* Responses[body]; a 2xx reply whose body is not JSON; a non-2xx reply with a
\* status and a body text; or a transport failure (httpx timeouts carry an
\* empty message).
\* The bodies served while the process runs: a text answer, an answer with
\* SQL and data, and a body that is not an object.
ServedBodies == {1, 2, 5}

HttpEnvs ==
    [kind : {"ok"}, status : {200}, text : {""}, body : ServedBodies]
    \cup [kind : {"badjson"}, status : {200},
          text : {"Expecting value: line 1 column 1 (char 0)"}, body : {0}]
    \cup {[kind |-> "status", status |-> 404, text |-> "not found", body |-> 0],
          [kind |-> "status", status |-> 500, text |-> "", body |-> 0]}
    \cup [kind : {"transport"}, status : {0}, text : {"", "connection refused"}, body : {0}]

NoHttp == [kind |-> "none", status |-> 0, text |-> "", body |-> 0]

\* A chat event as the platform delivers it.
NoEvent ==
    [type |-> "none", user |-> "", text |-> "", channel |-> "", ts |-> "",
     thread_ts |-> None, channel_type |-> "", bot_id |-> None]

\* ------------------------------------------------------ the record of a call
\* What the last completed operation did.  op names it; outcome is "returned"
\* or "raised"; result is the QueryResult returned if any; http counts the HTTP
\* request attempts made and request is the request sent; connects counts the
\* connect attempts; statements lists the SQL executed; cursorsObtained and
\* cursorsClosed count cursors; connAtCursor is the connection a cursor was
\* obtained on and failed the step of execute_sql that raised; closes counts
\* the connection closes of a close(); effects lists a callback's outbound
\* actions and event is the event it was given.
NoCall ==
    [op |-> "none", outcome |-> "returned", result |-> None, raised |-> None,
     question |-> "", http |-> 0, request |-> None, httpEnv |-> NoHttp,
     tokenRaised |-> FALSE, connects |-> 0, statements |-> << >>,
     cursorsObtained |-> 0, cursorsClosed |-> 0, connAtCursor |-> None,
     failed |-> "none", rows |-> << >>, closes |-> 0, effects |-> << >>,
     event |-> NoEvent]

\* A turn of the agent's message list.
Turn(role, text) ==
    [role |-> role, content |-> << [type |-> "text", text |-> text] >>]

\* --------------------------------------------------------------------- query
\* Lines 75-84: the request body.
RequestMessages(question) == << Turn("user", question) >>

\* Lines 72-73: an absent thread_id becomes a fresh uuid4.
ThreadId(thread_id) == IF thread_id = None THEN "uuid4" ELSE Get(thread_id)

\* Lines 87-92: the Authorization header's token.
Bearer(token) == token

\* Lines 103-108.
OnHTTPStatusError(status, text) ==
    [outcome |-> "returned",
     result |-> Some(NewQueryResult("", None, << >>,
                   Some("API error: " \o ToString(status) \o " - " \o text)))]

\* Lines 109-111 without the handler: the exception leaves query.
OnException_reraise(msg) ==
    [outcome |-> "raised", result |-> None]

\* Lines 109-111.
OnException(msg) ==
    [outcome |-> "returned",
     result |-> Some(NewQueryResult("", None, << >>, Some(msg)))]

\* Lines 94-101: the exchange with the endpoint, one request attempt.
Exchange(henv) ==
    IF henv.kind = "transport" THEN OnException(henv.text)
    ELSE IF henv.kind = "status" THEN OnHTTPStatusError(henv.status, henv.text)
    ELSE IF henv.kind = "badjson" THEN OnException(henv.text)
    ELSE [outcome |-> "returned",
          result |-> Some(parse_response(Responses[henv.body]))]

\* The record of a query call that made the exchange x after the token frame t.
QueryCall(t, question, x) ==
    [NoCall EXCEPT !.op = "query", !.question = question,
                   !.connects = t.connects, !.statements = t.statements,
                   !.cursorsObtained = t.cursorsObtained,
                   !.cursorsClosed = t.cursorsClosed,
                   !.tokenRaised = t.raised # None,
                   !.outcome = x.outcome, !.result = x.result]

\* Lines 86-111 after line 87 left the token frame t.
QueryWith(t, question, thread_id, henv) ==
    IF t.raised # None
    THEN [c |-> t.c, call |-> QueryCall(t, question, OnException(Get(t.raised)))]
    ELSE [c |-> t.c,
          call |-> [QueryCall(t, question, Exchange(henv)) EXCEPT
                       !.http = 1, !.httpEnv = henv,
                       !.request = Some([url |-> AgentUrl,
                                         bearer |-> Bearer(Get(t.value)),
                                         thread_id |-> ThreadId(thread_id),
                                         messages |-> RequestMessages(question)])]]

\* CortexClient.query(question, thread_id): the client state it leaves and the
\* record of the call.
query(c, question, thread_id, tenv, henv) ==
    QueryWith(get_session_token(c, tenv), question, thread_id, henv)

\* --------------------------------------------------------------- execute_sql
\* What the warehouse does with a statement: whether connecting succeeds, the
\* step that raises if any, the cursor's description (None when the statement
\* has no result set) and the rows it fetches.
Columns == << "id", "name" >>
ExecEnvs ==
    [connect : BOOLEAN,
     fail : {"none", "execute", "description", "fetchall"},
     description : {None}, rows : {<< >>}]
    \cup [connect : BOOLEAN,
          fail : {"none", "execute", "description", "fetchall"},
          description : {Some(Columns)}, rows : {<< << "1", "Alice" >> >>}]

Min(a, b) == IF a < b THEN a ELSE b

\* dict(zip(columns, row)): a later duplicate column overwrites an earlier one.
ZipDict(columns, row) ==
    LET n == Min(Len(columns), Len(row)) IN
    [name \in {columns[i] : i \in 1..n} |->
        row[CHOOSE i \in 1..n : columns[i] = name
                                /\ \A j \in 1..n : columns[j] = name => j <= i]]

\* Lines 157-158 with the cursor closed only on the success path.
CursorClosesOnExit_successOnly(fail) == IF fail = "none" THEN 1 ELSE 0

\* Lines 157-158: "finally: cursor.close()" runs once however the body ends.
CursorClosesOnExit(fail) == 1

\* Lines 151-158 on the connection frame g that line 150 obtained.
ExecuteOn(g, sql, env) ==
    IF g.raised # None
    THEN [c |-> g.c,
          call |-> [NoCall EXCEPT !.op = "execute_sql", !.question = sql,
                                  !.connects = g.connects,
                                  !.outcome = "raised", !.raised = g.raised]]
    ELSE [c |-> g.c,
          call |-> [NoCall EXCEPT
              !.op = "execute_sql", !.question = sql,
              !.connects = g.connects,
              !.connAtCursor = g.value,
              !.failed = env.fail,
              !.cursorsObtained = 1,
              !.statements = << sql >>,
              !.cursorsClosed = CursorClosesOnExit(env.fail),
              !.outcome = IF env.fail = "none" THEN "returned" ELSE "raised",
              !.raised = IF env.fail = "none" THEN None
                         ELSE Some(env.fail \o " failed"),
              !.rows = IF env.fail = "none"
                       THEN [i \in 1..Len(env.rows) |->
                                ZipDict(IF env.description = None THEN << >>
                                        ELSE Get(env.description), env.rows[i])]
                       ELSE << >>]]

\* CortexClient.execute_sql(sql).
execute_sql(c, sql, env) == ExecuteOn(get_connection(c, env.connect), sql, env)

\* --------------------------------------------------------------------- close
\* close() that closes the connection but keeps the reference to it.
close_keepsReference(c) ==
    IF c.connection # None
    THEN [c EXCEPT !.conns[Get(c.connection)] =
                       [open |-> FALSE, closes |-> @.closes + 1]]
    ELSE c

\* CortexClient.close().
close(c) ==
    IF c.connection # None
    THEN [c EXCEPT !.conns[Get(c.connection)] =
                       [open |-> FALSE, closes |-> @.closes + 1],
                   !.connection = None,
                   !.session_token = None]
    ELSE c

CloseCall(c) ==
    [NoCall EXCEPT !.op = "close",
                   !.closes = IF c.connection # None
                              THEN close(c).conns[Get(c.connection)].closes
                                   - c.conns[Get(c.connection)].closes
                              ELSE 0]

\* ----------------------------------------------------------- format_response
MAX_BLOCK_TEXT_LENGTH == 2900
MAX_HISTORY_MESSAGES == 20

Section(text) == [type |-> "section", text |-> [type |-> "mrkdwn", text |-> text]]
Divider == [type |-> "divider"]
Context(text) ==
    [type |-> "context", elements |-> << [type |-> "mrkdwn", text |-> text] >>]

\* Line 25: "if result.error:".
HasError(result) == Truthy(result.error)

\* The truncation of lines 33-35 cutting one character late.
AnswerText_offByOne(answer) ==
    IF Len(answer) > MAX_BLOCK_TEXT_LENGTH + 1
    THEN SubSeq(answer, 1, MAX_BLOCK_TEXT_LENGTH + 1) \o "..."
    ELSE answer

\* Lines 33-35.
AnswerText(answer) ==
    IF Len(answer) > MAX_BLOCK_TEXT_LENGTH
    THEN SubSeq(answer, 1, MAX_BLOCK_TEXT_LENGTH) \o "..."
    ELSE answer

\* Lines 41-45.
FileNotes(result) ==
    (IF Truthy(result.sql) THEN << ":mag: SQL query attached" >> ELSE << >>)
    \o (IF TruthyList(result.data)
        THEN << ":bar_chart: Results attached (" \o ToString(Len(result.data))
                \o " rows)" >>
        ELSE << >>)

format_response(result) ==
    IF HasError(result)
    THEN << Section(":x: *Error*\n" \o Get(result.error)) >>
    ELSE (IF TruthyStr(result.answer)
          THEN << Section(AnswerText(result.answer)) >> ELSE << >>)
         \o (IF Len(FileNotes(result)) > 0
             THEN << Divider, Context(Join(" | ", FileNotes(result))) >>
             ELSE << >>)

\* ------------------------------------------------------------------ effects
\* An outbound action of a callback, in the order made: a say (post message),
\* a call of the client's query, or a file upload.
NoEffect ==
    [kind |-> "none", text |-> "", blocks |-> None, thread_ts |-> "",
     history |-> << >>, accepted |-> FALSE, request |-> None, uploads |-> << >>]
SayEffect(text, blocks, thread_ts) ==
    [NoEffect EXCEPT !.kind = "say", !.text = text, !.blocks = blocks,
                     !.thread_ts = thread_ts]
QueryEffect(question, thread_id, history, accepted, request) ==
    [NoEffect EXCEPT !.kind = "query", !.text = question,
                     !.thread_ts = Get(thread_id),
                     !.history = history, !.accepted = accepted,
                     !.request = request]
UploadEffect(channel, thread_ts, uploads) ==
    [NoEffect EXCEPT !.kind = "upload", !.text = channel, !.thread_ts = thread_ts,
                     !.uploads = uploads]

\* -------------------------------------------------------------- upload_files
\* str() of a JSON scalar, for the CSV cells.
CellText(node) ==
    CASE node.k = "str" -> node.s
      [] node.k = "num" -> ToString(node.n)
      [] OTHER -> ""

\* Lines 70-74: header and rows; the column order is that of the first row's
\* keys (here the order SetToSeq fixes).
CsvText(data) ==
    LET columns == SetToSeq(DOMAIN data[1].f)
        line(row) == Join(",", [i \in 1..Len(columns) |->
                                   IF columns[i] \in DOMAIN row.f
                                   THEN CellText(row.f[columns[i]]) ELSE ""])
    IN Join(",", columns) \o "\r\n"
       \o Join("", [i \in 1..Len(data) |-> line(data[i]) \o "\r\n"])

\* upload_files: the effects it has; a failing upload is logged and swallowed.
upload_files(channel, thread_ts, result) ==
    IF ~Truthy(result.sql) /\ ~TruthyList(result.data) THEN << >>
    ELSE << UploadEffect(channel, thread_ts,
              (IF Truthy(result.sql)
               THEN << [content |-> Get(result.sql), filename |-> "query.sql",
                        title |-> "Generated SQL"] >>
               ELSE << >>)
              \o (IF TruthyList(result.data)
                  THEN << [content |-> CsvText(result.data),
                           filename |-> "results.csv", title |-> "Query Results"] >>
                  ELSE << >>)) >>

\* ---------------------------------------------------------- extract_question
\* re.sub(pattern, "", text) for a literal pattern: every non-overlapping
\* occurrence, left to right, is removed.
RECURSIVE RemoveAll(_, _)
RemoveAll(text, pat) ==
    IF pat = "" \/ Len(text) < Len(pat) THEN text
    ELSE IF SubSeq(text, 1, Len(pat)) = pat
         THEN RemoveAll(SubSeq(text, Len(pat) + 1, Len(text)), pat)
         ELSE SubSeq(text, 1, 1) \o RemoveAll(SubSeq(text, 2, Len(text)), pat)

\* The residual text without the trim of line 93.
extract_question_untrimmed(text, bot_user_id) ==
    RemoveAll(text, "<@" \o bot_user_id \o ">")

extract_question(text, bot_user_id) ==
    Strip(RemoveAll(text, "<@" \o bot_user_id \o ">"))

\* ------------------------------------------------- get_history, store_exchange
\* seq[-n:]
LastN(seq, n) ==
    IF Len(seq) <= n THEN seq ELSE SubSeq(seq, Len(seq) - n + 1, Len(seq))

\* get_history without the slice of line 97.
get_history_uncapped(history, thread_ts) == history[thread_ts]

get_history(history, thread_ts) == LastN(history[thread_ts], MAX_HISTORY_MESSAGES)

store_exchange(history, thread_ts, question, answer) ==
    [history EXCEPT ![thread_ts] =
        Append(Append(@, Turn("user", question)), Turn("assistant", answer))]

\* ---------------------------------------------- run_cortex_query, run_query_sync
\* Line 71: the parameters query can be called with.
QueryParams == {"question", "thread_id"}

\* Line 116: the keyword arguments of the call.
QueryKeywords == {"thread_id", "history"}

\* str() of the TypeError Python raises for a keyword the callee does not take.
UnexpectedKeyword(name) ==
    "CortexClient.query() got an unexpected keyword argument '" \o name \o "'"

\* The keyword the TypeError names: the first, in call order, query lacks.
FirstUnexpected ==
    IF "thread_id" \notin QueryParams THEN "thread_id" ELSE "history"

\* Line 116 when the call binds: q is what query left.
Awaited(q, question, thread_id, history) ==
    [c |-> q.c,
     result |-> IF q.call.outcome = "returned" THEN Get(q.call.result)
                ELSE NewQueryResult("", None, << >>, Some("query raised")),
     effects |-> << QueryEffect(question, thread_id, history, TRUE,
                                q.call.request) >>]

\* run_cortex_query: the client state it leaves, the QueryResult it returns
\* and its effect.  A call whose keywords query does not take raises TypeError
\* before query's body runs; line 117 turns it into a failed result.
run_cortex_query(c, question, thread_id, history, tenv, henv) ==
    IF QueryKeywords \subseteq QueryParams
    THEN Awaited(query(c, question, thread_id, tenv, henv), question, thread_id,
                 history)
    ELSE [c |-> c,
          result |-> NewQueryResult("", None, << >>,
                                    Some(UnexpectedKeyword(FirstUnexpected))),
          effects |-> << QueryEffect(question, thread_id, history, FALSE, None) >>]

\* run_query_sync: loop is whether the calling thread has a usable event loop
\* ("current") or get_event_loop() raises RuntimeError ("none"); in the second
\* case line 129's coroutine was never created and line 133 runs a fresh one.
run_query_sync(loop, c, question, thread_id, history, tenv, henv) ==
    IF loop = "current"
    THEN run_cortex_query(c, question, thread_id, history, tenv, henv)
    ELSE run_cortex_query(c, question, thread_id, history, tenv, henv)

\* ------------------------------------------------------------------ handlers
BotUserId == "U1"

\* Lines 144 and 175 using the event's own timestamp only.
ThreadAnchor_tsOnly(event) == event.ts

\* Lines 144 and 175: event.get("thread_ts") or event.get("ts").
ThreadAnchor(event) ==
    IF Truthy(event.thread_ts) THEN Get(event.thread_ts) ELSE event.ts

AckText == ":hourglass_flowing_sand: Analyzing your question..."
PromptText == "Please ask me a question about your data!"
NoAnswerText == "No response from agent."

\* The fallback without the default for an empty answer.
FallbackText_answerOnly(result) ==
    IF success(result) THEN result.answer ELSE "Error: " \o Get(result.error)

\* Lines 157 and 185.
FallbackText(result) ==
    IF success(result)
    THEN (IF TruthyStr(result.answer) THEN result.answer ELSE NoAnswerText)
    ELSE "Error: " \o Get(result.error)

\* Lines 161 and 189: the answer stored for the exchange.
StoredAnswer(result) ==
    IF TruthyStr(result.answer) THEN result.answer ELSE NoAnswerText

\* What the platform and the calling thread do during a callback: whether the
\* first and the second say succeed, and the thread's event loop.
HandlerEnvs == [say1 : BOOLEAN, say2 : BOOLEAN, loop : {"current", "none"}]

\* Lines 156-162 and 184-189 once run_query_sync has returned r: format,
\* reply, upload, store.
Reply(r, op, history, event, question, env) ==
    IF ~env.say2
    THEN [history |-> history, c |-> r.c,
          call |-> [NoCall EXCEPT !.op = op, !.question = question,
                                  !.event = event, !.outcome = "raised",
                                  !.raised = Some("say failed"),
                                  !.result = Some(r.result),
                                  !.effects = << SayEffect(AckText, None,
                                                           ThreadAnchor(event)) >>
                                              \o r.effects]]
    ELSE [history |-> store_exchange(history, ThreadAnchor(event), question,
                                     StoredAnswer(r.result)),
          c |-> r.c,
          call |-> [NoCall EXCEPT !.op = op, !.question = question,
                                  !.event = event,
                                  !.result = Some(r.result),
                                  !.effects =
                                      << SayEffect(AckText, None, ThreadAnchor(event)) >>
                                      \o r.effects
                                      \o << SayEffect(FallbackText(r.result),
                                                      Some(format_response(r.result)),
                                                      ThreadAnchor(event)) >>
                                      \o upload_files(event.channel,
                                                      ThreadAnchor(event), r.result)]]

\* Lines 152-162 and 180-189, shared by both handlers: acknowledge, query,
\* reply, upload, store.  Returns the history and client state left and the
\* record of the callback.
Resolve(op, history, c, event, question, env, tenv, henv) ==
    IF ~env.say1
    THEN [history |-> history, c |-> c,
          call |-> [NoCall EXCEPT !.op = op, !.question = question,
                                  !.event = event, !.outcome = "raised",
                                  !.raised = Some("say failed")]]
    ELSE Reply(run_query_sync(env.loop, c, question, Some(ThreadAnchor(event)),
                              get_history(history, ThreadAnchor(event)), tenv, henv),
               op, history, event, question, env)

\* handle_mention
handle_mention(history, c, event, env, tenv, henv) ==
    LET thread_ts == ThreadAnchor(event)
        question == extract_question(event.text, BotUserId)
        base == [NoCall EXCEPT !.op = "handle_mention", !.question = question,
                               !.event = event]
    IN
    IF ~TruthyStr(question)
    THEN IF env.say1
         THEN [history |-> history, c |-> c,
               call |-> [base EXCEPT !.effects =
                             << SayEffect(PromptText, None, thread_ts) >>]]
         ELSE [history |-> history, c |-> c,
               call |-> [base EXCEPT !.outcome = "raised",
                                     !.raised = Some("say failed")]]
    ELSE Resolve("handle_mention", history, c, event, question, env, tenv, henv)

\* The direct-message flow without the gates of lines 166-178.
handle_message_ungated(history, c, event, env, tenv, henv) ==
    Resolve("handle_message", history, c, event, event.text, env, tenv, henv)

\* handle_message
handle_message(history, c, event, env, tenv, henv) ==
    LET base == [NoCall EXCEPT !.op = "handle_message", !.question = event.text,
                               !.event = event]
    IN
    IF event.channel_type # "im" \/ Truthy(event.bot_id)
       \/ ~TruthyStr(Strip(event.text))
    THEN [history |-> history, c |-> c, call |-> base]
    ELSE Resolve("handle_message", history, c, event, event.text, env, tenv, henv)

\* ---------------------------------------------------------------------- main
\* The steps of main's try block up to handler.start(), in order; create_app
\* is inlined (app.py lines 19-34).
StartupSteps ==
    << "get_settings", "create_app.get_settings", "create_app.App",
       "create_app.CortexClient", "create_app.register_handlers",
       "SocketModeHandler" >>

StepIndex(step) == CHOOSE i \in 1..Len(StartupSteps) : StartupSteps[i] = step

\* A fault of startup: the step that raises and what it raises; at = "none"
\* is a startup that reaches handler.start().
StartupFaults ==
    [at : {StartupSteps[i] : i \in 1..Len(StartupSteps)},
     kind : {"Exception", "KeyboardInterrupt"}]
    \cup [at : {"none"}, kind : {"none"}]

\* app.py lines 26-29: CortexClient(...) has returned.
ClientConstructedAfter(at) ==
    at = "none" \/ StepIndex(at) > StepIndex("create_app.CortexClient")

\* app.py line 40: the assignment "app, cortex_client = create_app()" has run,
\* so line 52 finds "cortex_client" in locals().
ClientBoundAfter(at) ==
    at = "none" \/ StepIndex(at) > StepIndex("create_app.register_handlers")

\* An exit status that ignores how main ended.
ExitStatus_alwaysZero(kind) == 0

\* app.py lines 46-50: the exit status main ends the process with.
ExitStatus(kind) == IF kind = "Exception" THEN 1 ELSE 0

\* app.py lines 46 and 48: whether an except clause of main catches what was
\* raised, so that it does not leave main.
Handled(kind) == kind \in {"KeyboardInterrupt", "Exception"}

\* What ended main's try block: in which phase, what was raised ("return"
\* when handler.start() returned) and whether main caught it.
MainEnd(phase, kind) == [phase |-> phase, kind |-> kind, handled |-> Handled(kind)]

\* ------------------------------------------------- threads of the dispatcher
\* The threads that may be inside _get_connection at once, and where each is:
\* "idle" (outside), "connect" (line 39 was true), "assign" (connect()
\* returned the connection pending, not yet stored), "reset" (line 48 due),
\* "return" (line 49 due).
Callers == {1, 2}
IdleCaller == [pc |-> "idle", pending |-> None]

\* ---------------------------------------------------------------- the state
VARIABLES
    connection,         \* CortexClient._connection
    session_token,      \* CortexClient._session_token
    conns,              \* the connections the client opened (see above)
    thread_history,     \* handlers.thread_history, by thread anchor
    last,               \* the record of the last completed operation
    mainPc,             \* "start", "serving" or "exited"
    clientConstructed,  \* create_app has constructed the CortexClient
    clientBound,        \* main's local cortex_client is bound
    mainCloses,         \* close() calls made by main's finally block
    exitStatus,         \* None, or the process exit status
    mainFault,          \* None, or what ended main's try block
    callers,            \* the threads inside _get_connection (see RaceCheck) or inside a callback (see MentionBegins)
    fn                  \* a pure function applied to an input

vars == << connection, session_token, conns, thread_history, last, mainPc,
           clientConstructed, clientBound, mainCloses, exitStatus, mainFault, callers, fn >>

Client == [connection |-> connection, session_token |-> session_token,
           conns |-> conns]

\* Thread anchors (Slack timestamps) of the events.
Anchors == {"1.0", "2.0"}

NoFn == [name |-> "none", arg |-> NewQueryResult("", None, << >>, None),
         out |-> << >>, done |-> FALSE]

InitProgram ==
    /\ connection = None
    /\ session_token = None
    /\ conns = << >>
    /\ thread_history = [a \in Anchors |-> << >>]
    /\ last = NoCall
    /\ mainPc = "start"
    /\ clientConstructed = FALSE
    /\ clientBound = FALSE
    /\ mainCloses = 0
    /\ exitStatus = None
    /\ mainFault = None
    /\ callers = [t \in Callers |-> IdleCaller]

Init == InitProgram /\ fn = NoFn

SetClient(c) ==
    /\ connection' = c.connection
    /\ session_token' = c.session_token
    /\ conns' = c.conns

\* ---------------------------------------------------------- main's actions
\* main from its start to handler.start() blocking, or to the process exit
\* when a step of startup raises.
MainStartup(fault) ==
    /\ mainPc = "start"
    /\ clientConstructed' = ClientConstructedAfter(fault.at)
    /\ IF fault.at = "none"
       THEN /\ mainPc' = "serving"
            /\ clientBound' = TRUE
            /\ UNCHANGED << mainCloses, exitStatus, mainFault, last >>
       ELSE /\ mainPc' = "exited"
            /\ clientBound' = ClientBoundAfter(fault.at)
            /\ exitStatus' = Some(ExitStatus(fault.kind))
            /\ mainFault' = Some(MainEnd("startup", fault.kind))
            /\ mainCloses' = IF ClientBoundAfter(fault.at) THEN 1 ELSE 0
            /\ last' = IF ClientBoundAfter(fault.at) THEN CloseCall(Client) ELSE last
    /\ IF ClientBoundAfter(fault.at) /\ fault.at # "none"
       THEN SetClient(close(Client))
       ELSE UNCHANGED << connection, session_token, conns >>
    /\ UNCHANGED << thread_history, callers, fn >>

\* handler.start() ends: by KeyboardInterrupt, by another exception, or by
\* returning; then the finally block and the process exit.
MainServingEnds(kind) ==
    /\ mainPc = "serving"
    /\ mainPc' = "exited"
    /\ exitStatus' = Some(ExitStatus(kind))
    /\ mainFault' = Some(MainEnd("serving", kind))
    /\ mainCloses' = IF clientBound THEN mainCloses + 1 ELSE mainCloses
    /\ IF clientBound
       THEN SetClient(close(Client)) /\ last' = CloseCall(Client)
       ELSE UNCHANGED << connection, session_token, conns, last >>
    /\ UNCHANGED << thread_history, clientConstructed, clientBound, callers, fn >>

\* ------------------------------------------------------ the client's actions
Questions == {"q1"}
ThreadIds == {None, Some("1.0")}
SqlInputs == {"SELECT 1"}

\* A connect that would exceed the model's bound on connections is not taken.
WithinConns(c) == Len(c.conns) <= MaxConns

\* A caller holding the client calls query(question, thread_id).
Query(question, thread_id, tenv, henv) ==
    /\ mainPc = "serving"
    /\ LET q == query(Client, question, thread_id, tenv, henv) IN
       /\ WithinConns(q.c)
       /\ SetClient(q.c)
       /\ last' = q.call
    /\ UNCHANGED << thread_history, mainPc, clientConstructed, clientBound,
                    mainCloses, exitStatus, mainFault, callers, fn >>

\* A caller holding the client calls execute_sql(sql).
ExecuteSql(sql, env) ==
    /\ mainPc = "serving"
    /\ LET e == execute_sql(Client, sql, env) IN
       /\ WithinConns(e.c)
       /\ SetClient(e.c)
       /\ last' = e.call
    /\ UNCHANGED << thread_history, mainPc, clientConstructed, clientBound,
                    mainCloses, exitStatus, mainFault, callers, fn >>

\* A caller holding the client calls close().
Close ==
    /\ mainPc = "serving"
    /\ SetClient(close(Client))
    /\ last' = CloseCall(Client)
    /\ UNCHANGED << thread_history, mainPc, clientConstructed, clientBound,
                    mainCloses, exitStatus, mainFault, callers, fn >>

\* The warehouse ends a session on its side (expiry, network loss): the
\* connection then reports is_closed().
ConnectionLost(id) ==
    /\ mainPc = "serving"
    /\ id \in 1..Len(conns)
    /\ conns[id].open
    /\ conns' = [conns EXCEPT ![id].open = FALSE]
    /\ UNCHANGED << connection, session_token, thread_history, last, mainPc,
                    clientConstructed, clientBound, mainCloses, exitStatus, mainFault, callers, fn >>

\* ------------------------------------------- _get_connection, step by step
\* Threads of the dispatcher inside _get_connection at once: each statement
\* of lines 39-49 is a step, and the steps of different callers interleave.
RaceUnchanged ==
    UNCHANGED << thread_history, last, mainPc, clientConstructed, clientBound,
                 mainCloses, exitStatus, mainFault, fn >>

\* Line 39: the caller tests the held connection.
RaceCheck(t) ==
    /\ mainPc = "serving"
    /\ callers[t].pc = "idle"
    /\ callers' = [callers EXCEPT ![t].pc =
                       IF MustConnect(Client) THEN "connect" ELSE "return"]
    /\ UNCHANGED << connection, session_token, conns >>
    /\ RaceUnchanged

\* Lines 40-47: snowflake.connector.connect() returns a new connection, or
\* raises and the caller leaves the method.
RaceConnect(t, connectOk) ==
    /\ callers[t].pc = "connect"
    /\ Len(conns) < MaxConns
    /\ IF connectOk
       THEN /\ conns' = Append(conns, [open |-> TRUE, closes |-> 0])
            /\ callers' = [callers EXCEPT ![t] =
                               [pc |-> "assign", pending |-> Some(Len(conns) + 1)]]
       ELSE /\ conns' = conns
            /\ callers' = [callers EXCEPT ![t] = IdleCaller]
    /\ UNCHANGED << connection, session_token >>
    /\ RaceUnchanged

\* Line 40: the new connection is stored in self._connection.
RaceAssign(t) ==
    /\ callers[t].pc = "assign"
    /\ connection' = callers[t].pending
    /\ callers' = [callers EXCEPT ![t] = [pc |-> "reset", pending |-> None]]
    /\ UNCHANGED << session_token, conns >>
    /\ RaceUnchanged

\* Line 48: the cached token is dropped.
RaceResetToken(t) ==
    /\ callers[t].pc = "reset"
    /\ session_token' = None
    /\ callers' = [callers EXCEPT ![t].pc = "return"]
    /\ UNCHANGED << connection, conns >>
    /\ RaceUnchanged

\* Line 49: the caller leaves with whatever self._connection holds now.
RaceReturn(t) ==
    /\ callers[t].pc = "return"
    /\ callers' = [callers EXCEPT ![t] = IdleCaller]
    /\ UNCHANGED << connection, session_token, conns >>
    /\ RaceUnchanged

\* ---------------------------------------------------- the handlers' actions
\* The events dispatched: a message of its own (ts "2.0") or a reply in the
\* thread "1.0".
MentionEvents ==
    [type : {"app_mention"}, user : {"U9"},
     text : {"<@U1> q1", "<@U1> ", "q2"},
     channel : {"C1"}, ts : {"2.0"}, thread_ts : {None, Some("1.0")},
     channel_type : {"channel"}, bot_id : {None}]

MessageEvents ==
    [type : {"message"}, user : {"U9"}, text : {"q1", "  "},
     channel : {"D1"}, ts : {"2.0"}, thread_ts : {None, Some("1.0")},
     channel_type : {"im", "channel"}, bot_id : {None, Some("B1")}]

\* The warehouse and the endpoint are consulted only by a query call that
\* binds; otherwise one environment stands for all.
QueryEnvs ==
    IF QueryKeywords \subseteq QueryParams
    THEN TokenEnvs \X HttpEnvs
    ELSE {<< [connect |-> TRUE, execute |-> TRUE, row |-> TRUE], NoHttp >>}

TotalTurns ==
    LET RECURSIVE Sum(_)
        Sum(S) == IF S = {} THEN 0
                  ELSE LET a == CHOOSE x \in S : TRUE IN
                       Len(thread_history[a]) + Sum(S \ {a})
    IN Sum(Anchors)

\* The platform dispatches an app_mention event to handle_mention.
Mention(event, env, qenv) ==
    /\ mainPc = "serving"
    /\ TotalTurns < 2 * MaxEvents
    /\ LET h == handle_mention(thread_history, Client, event, env, qenv[1], qenv[2]) IN
       /\ WithinConns(h.c)
       /\ thread_history' = h.history
       /\ SetClient(h.c)
       /\ last' = h.call
    /\ UNCHANGED << mainPc, clientConstructed, clientBound, mainCloses,
                    exitStatus, mainFault, callers, fn >>

\* The platform dispatches a message event to handle_message.
DirectMessage(event, env, qenv) ==
    /\ mainPc = "serving"
    /\ TotalTurns < 2 * MaxEvents
    /\ LET h == handle_message(thread_history, Client, event, env, qenv[1], qenv[2]) IN
       /\ WithinConns(h.c)
       /\ thread_history' = h.history
       /\ SetClient(h.c)
       /\ last' = h.call
    /\ UNCHANGED << mainPc, clientConstructed, clientBound, mainCloses,
                    exitStatus, mainFault, callers, fn >>

\* ------------------------------------------------------------ specification
MainNext ==
    \/ \E fault \in StartupFaults : MainStartup(fault)
    \/ \E kind \in {"KeyboardInterrupt", "Exception", "return"} : MainServingEnds(kind)

\* The process and the callers of its client.
Next ==
    \/ MainNext
    \/ \E question \in Questions, thread_id \in ThreadIds,
          tenv \in TokenEnvs, henv \in HttpEnvs :
          Query(question, thread_id, tenv, henv)
    \/ \E sql \in SqlInputs, env \in ExecEnvs : ExecuteSql(sql, env)
    \/ Close
    \/ \E id \in 1..MaxConns : ConnectionLost(id)

Spec == Init /\ [][Next]_vars

\* The process and the chat events dispatched to its handlers.
ChatNext ==
    \/ MainNext
    \/ \E event \in MentionEvents, env \in HandlerEnvs, qenv \in QueryEnvs :
          Mention(event, env, qenv)
    \/ \E event \in MessageEvents, env \in HandlerEnvs, qenv \in QueryEnvs :
          DirectMessage(event, env, qenv)

SpecChat == Init /\ [][ChatNext]_vars

\* Mentions that all belong to the thread "1.0": a question, or the bare
\* mention.
ThreadEvents ==
    {e \in MentionEvents : e.thread_ts = Some("1.0") /\ e.text # "q2"}

\* The platform dispatches a mention of a long conversation in one thread.
ThreadMention(event, env, qenv) ==
    /\ mainPc = "serving"
    /\ Len(thread_history[ThreadAnchor(event)]) < MaxThreadTurns
    /\ LET h == handle_mention(thread_history, Client, event, env, qenv[1], qenv[2]) IN
       /\ WithinConns(h.c)
       /\ thread_history' = h.history
       /\ SetClient(h.c)
       /\ last' = h.call
    /\ UNCHANGED << mainPc, clientConstructed, clientBound, mainCloses,
                    exitStatus, mainFault, callers, fn >>

\* The process and a long conversation in one thread.
ThreadNext ==
    \/ MainNext
    \/ \E event \in ThreadEvents, env \in HandlerEnvs, qenv \in QueryEnvs :
          ThreadMention(event, env, qenv)

SpecThread == Init /\ [][ThreadNext]_vars

\* ------------------------------------------- store_exchange, step by step
\* Threads of the dispatcher running handle_mention at once.  Lines 140-160
\* of a callback are taken in one step; the two appends of store_exchange
\* (lines 101-103 and 104-106) are a step each, and the steps of different
\* callbacks interleave.  A caller's pending is then the exchange it stores.
StoreUnchanged ==
    UNCHANGED << connection, session_token, conns, last, mainPc,
                 clientConstructed, clientBound, mainCloses, exitStatus,
                 mainFault, fn >>

\* Lines 140-160: the callback up to its call of store_exchange, if it gets
\* that far.
MentionBegins(t, event, env, qenv) ==
    /\ mainPc = "serving"
    /\ callers[t].pc = "idle"
    /\ TotalTurns + 2 * Cardinality({u \in Callers : callers[u].pc # "idle"})
          < 2 * MaxEvents
    /\ LET h == handle_mention(thread_history, Client, event, env, qenv[1], qenv[2]) IN
       /\ WithinConns(h.c)
       /\ SetClient(h.c)
       /\ last' = h.call
       /\ callers' =
              IF h.history # thread_history
              THEN [callers EXCEPT ![t] =
                       [pc |-> "store_user",
                        pending |-> Some([thread_ts |-> ThreadAnchor(event),
                                          question |-> h.call.question,
                                          answer |-> StoredAnswer(Get(h.call.result))])]]
              ELSE callers
    /\ UNCHANGED << thread_history, mainPc, clientConstructed, clientBound,
                    mainCloses, exitStatus, mainFault, fn >>

\* Lines 101-103: the user turn is appended.
StoreUser(t) ==
    /\ callers[t].pc = "store_user"
    /\ thread_history' =
           [thread_history EXCEPT ![Get(callers[t].pending).thread_ts] =
               Append(@, Turn("user", Get(callers[t].pending).question))]
    /\ callers' = [callers EXCEPT ![t].pc = "store_assistant"]
    /\ StoreUnchanged

\* Lines 104-106: the assistant turn is appended and the callback returns.
StoreAssistant(t) ==
    /\ callers[t].pc = "store_assistant"
    /\ thread_history' =
           [thread_history EXCEPT ![Get(callers[t].pending).thread_ts] =
               Append(@, Turn("assistant", Get(callers[t].pending).answer))]
    /\ callers' = [callers EXCEPT ![t] = IdleCaller]
    /\ StoreUnchanged

\* The process and mentions handled at the same time.
StoreNext ==
    \/ MainNext
    \/ \E t \in Callers, event \in MentionEvents, env \in HandlerEnvs,
          qenv \in QueryEnvs : MentionBegins(t, event, env, qenv)
    \/ \E t \in Callers : StoreUser(t)
    \/ \E t \in Callers : StoreAssistant(t)

SpecStore == Init /\ [][StoreNext]_vars

\* The process, callers inside _get_connection at the same time, close() and
\* the warehouse ending sessions.
RaceNext ==
    \/ MainNext
    \/ \E t \in Callers : RaceCheck(t)
    \/ \E t \in Callers, connectOk \in BOOLEAN : RaceConnect(t, connectOk)
    \/ \E t \in Callers : RaceAssign(t)
    \/ \E t \in Callers : RaceResetToken(t)
    \/ \E t \in Callers : RaceReturn(t)
    \/ Close
    \/ \E id \in 1..MaxConns : ConnectionLost(id)

SpecRace == Init /\ [][RaceNext]_vars

\* -------------------------------------------- pure functions on their inputs
QueryResultInputs ==
    [answer : {"", "ok", "Found 2 users."},
     sql : {None, Some(""), Some("SELECT 1")},
     data : {<< >>, << Row("1", "Alice") >>, << Row("1", "Alice"), Row("2", "Bob") >>},
     error : {None, Some(""), Some("Connection failed")}]

\* ch * n
RECURSIVE Repeat(_, _)
Repeat(ch, n) ==
    IF n = 0 THEN ""
    ELSE LET half == Repeat(ch, n \div 2) IN
         IF n % 2 = 0 THEN half \o half ELSE half \o half \o ch

\* Successful results whose answer is about as long as a block's text may be.
LongResultInputs ==
    [answer : {Repeat("x", n) : n \in {2899, 2900, 2901, 3000, 3001}},
     sql : {None}, data : {<< >>}, error : {None}]

\* The pure functions applied and the inputs each is applied to.
PureInputs ==
    [name : {"format_response"}, arg : QueryResultInputs \cup LongResultInputs,
     out : {<< >>}, done : {FALSE}]
    \cup [name : {"fallback_text"}, arg : QueryResultInputs,
          out : {<< >>}, done : {FALSE}]
    \cup [name : {"parse_response"},
          arg : {Responses[i] : i \in 1..Len(Responses)},
          out : {<< >>}, done : {FALSE}]

InitPure == InitProgram /\ fn \in PureInputs

\* fn.name is applied to fn.arg, giving out.
Apply(name, out) ==
    /\ fn.name = name
    /\ ~fn.done
    /\ fn' = [fn EXCEPT !.out = out, !.done = TRUE]
    /\ UNCHANGED << connection, session_token, conns, thread_history, last,
                    mainPc, clientConstructed, clientBound, mainCloses,
                    exitStatus, mainFault, callers >>

\* format_response is applied to the input.
ApplyFormatResponse == Apply("format_response", format_response(fn.arg))

\* The fallback text of lines 157 and 185 is computed from the input.
ApplyFallbackText == Apply("fallback_text", FallbackText(fn.arg))

\* _parse_response is applied to a decoded body.
ApplyParseResponse == Apply("parse_response", parse_response(fn.arg))

PureNext ==
    \/ ApplyFormatResponse
    \/ ApplyFallbackText
    \/ ApplyParseResponse

SpecPure == InitPure /\ [][PureNext]_vars

\* ===================================================================== claims

\* C1: every call of query returns a QueryResult and never raises; it makes at
\* most one HTTP request attempt; on a non-2xx status the result has an empty
\* answer and the error "API error: <status> - <body>", and on any other
\* failure (token generation, transport, undecodable or malformed body) it has
\* an empty answer and an error that is not absent.
C1_QueryNeverRaises ==
    last.op = "query" =>
        /\ last.outcome = "returned"
        /\ last.result # None
        /\ last.http <= 1
        /\ (last.tokenRaised => last.http = 0)
        /\ (last.httpEnv.kind = "status" =>
               Get(last.result) =
                   [answer |-> "", sql |-> None, data |-> << >>,
                    error |-> Some("API error: " \o ToString(last.httpEnv.status)
                                   \o " - " \o last.httpEnv.text)])
        /\ ((\/ last.tokenRaised
             \/ last.httpEnv.kind \in {"status", "transport", "badjson"}
             \/ (last.httpEnv.kind = "ok" /\ Responses[last.httpEnv.body].k # "obj"))
            => /\ Get(last.result).answer = ""
               /\ Get(last.result).error # None)

C1_Witness ==
    /\ last.op = "query"
    /\ last.http = 1
    /\ last.httpEnv.kind = "status"
    /\ Get(last.result).error = Some("API error: 404 - not found")

\* C2: for an app_mention event with a non-empty question the handler posts
\* the acknowledgment to the thread anchor (thread_ts if present, else ts),
\* then calls the client's query for that question, then posts the final
\* reply (text and blocks) to the same anchor, each once and in this order;
\* it returns only after the final reply was posted, and when a post fails it
\* raises having done a prefix of these.
C2_MentionOrder ==
    (last.op = "handle_mention" /\ extract_question(last.event.text, BotUserId) # "") =>
        LET anchor == IF last.event.thread_ts # None
                      THEN Get(last.event.thread_ts) ELSE last.event.ts
            e == last.effects
        IN /\ (last.outcome = "returned" => Len(e) >= 3)
           /\ (last.outcome = "raised" => Len(e) \in {0, 2})
           /\ (Len(e) >= 1 =>
                  /\ e[1].kind = "say" /\ e[1].text = AckText
                  /\ e[1].blocks = None /\ e[1].thread_ts = anchor)
           /\ (Len(e) >= 2 =>
                  /\ e[2].kind = "query"
                  /\ e[2].text = extract_question(last.event.text, BotUserId))
           /\ (Len(e) >= 3 =>
                  /\ e[3].kind = "say" /\ e[3].blocks # None
                  /\ e[3].thread_ts = anchor)
           /\ \A i \in 4..Len(e) : e[i].kind \notin {"say", "query"}

C2_Witness ==
    /\ last.op = "handle_mention"
    /\ last.outcome = "returned"
    /\ last.event.thread_ts = Some("1.0")
    /\ Len(last.effects) = 3
    /\ last.effects[3].kind = "say"
    /\ last.effects[3].thread_ts = "1.0"

\* C3: query accepts an optional history: every query call a handler makes
\* through run_cortex_query is accepted, and the message list of the request
\* it sends is the history supplied followed by one user turn with the
\* question.
C3_HistoryThenQuestion ==
    \A i \in 1..Len(last.effects) :
        last.effects[i].kind = "query" =>
            /\ last.effects[i].accepted
            /\ (last.effects[i].request # None =>
                   Get(last.effects[i].request).messages =
                       last.effects[i].history
                       \o << Turn("user", last.effects[i].text) >>)

\* C4: every query the handlers issue carries no history, whatever events
\* were handled before it in the same thread.
C4_QueriesCarryNoHistory ==
    \A i \in 1..Len(last.effects) :
        last.effects[i].kind = "query" => last.effects[i].history = << >>

\* C5: a connection is opened only when the client holds none or the held one
\* reports closed; a held open connection is reused by query and execute_sql;
\* and no connection the client opened is open unless it is the held one.
C5_SingleOpenConnection ==
    [][/\ (Len(conns') > Len(conns) =>
              (connection = None \/ ~conns[Get(connection)].open))
       /\ ((connection # None /\ conns[Get(connection)].open
            /\ last'.op \in {"query", "execute_sql"}) =>
              connection' = connection /\ Len(conns') = Len(conns))
       /\ \A id \in 1..Len(conns') : conns'[id].open => connection' = Some(id)
      ]_vars

C5_Witness ==
    /\ Len(conns) >= 2
    /\ connection = Some(2)
    /\ conns[2].open
    /\ ~conns[1].open
    /\ last.op \in {"query", "execute_sql"}
    /\ last.connects = 0

\* C6: close is idempotent: with no connection it changes nothing; with a
\* connection it closes that connection once and clears the cached connection
\* and token; a second close changes nothing more, so no connection is closed
\* twice.
C6_CloseIdempotent ==
    LET once == close(Client)
        twice == close(once)
    IN /\ twice = once
       /\ (connection = None => once = Client)
       /\ (connection # None =>
              /\ once.connection = None
              /\ once.session_token = None
              /\ ~once.conns[Get(connection)].open
              /\ once.conns[Get(connection)].closes = conns[Get(connection)].closes + 1
              /\ \A id \in 1..Len(conns) :
                     id # Get(connection) => once.conns[id] = conns[id])
       /\ (last.op = "close" => connection = None /\ session_token = None)
       /\ \A id \in 1..Len(conns) : conns[id].closes <= 1

C6_Witness ==
    /\ last.op = "close"
    /\ last.closes = 1
    /\ connection = None
    /\ \E id \in 1..Len(conns) : conns[id].closes = 1
    /\ mainPc = "serving"

\* C7: on every path out of main, if a CortexClient was constructed then its
\* close() was invoked before the process exits.
C7_CloseOnEveryExit ==
    (mainPc = "exited" /\ clientConstructed) => mainCloses >= 1

\* C8: the bearer token of every agent request is the personal-access
\* credential of the settings, and a query call neither opens a warehouse
\* connection nor executes a SQL statement.
C8_BearerIsPat ==
    last.op = "query" =>
        /\ last.connects = 0
        /\ last.statements = << >>
        /\ (last.request # None => Get(last.request).bearer = Pat)

\* C9: an execute_sql call that obtains a cursor closes it exactly once before
\* it returns or raises, whichever step fails; a failing step makes the call
\* raise, and the cached connection is still the one the cursor was obtained
\* on.
C9_CursorClosedOnce ==
    (last.op = "execute_sql" /\ last.cursorsObtained = 1) =>
        /\ last.cursorsClosed = 1
        /\ (last.failed # "none" <=> last.outcome = "raised")
        /\ (last.outcome = "raised" =>
               /\ last.raised # None
               /\ connection = last.connAtCursor)

C9_Witness ==
    /\ last.op = "execute_sql"
    /\ last.cursorsObtained = 1
    /\ last.failed = "fetchall"
    /\ last.outcome = "raised"
    /\ last.cursorsClosed = 1

\* C10: for every QueryResult whose error is present, whatever its text and
\* the other fields, format_response returns exactly one block, the section
\* ":x: *Error*\n<error>".
C10_ErrorBlockOnly ==
    (fn.name = "format_response" /\ fn.done /\ fn.arg.error # None) =>
        fn.out = << [type |-> "section",
                     text |-> [type |-> "mrkdwn",
                               text |-> ":x: *Error*\n" \o Get(fn.arg.error)]] >>

\* C11: the plain-text fallback of the final reply is the result's answer when
\* the result is successful, an empty answer included, and "Error: <error>"
\* when it is not.
C11_FallbackIsAnswerOrError ==
    (fn.name = "fallback_text" /\ fn.done) =>
        fn.out = IF fn.arg.error = None
                 THEN fn.arg.answer
                 ELSE "Error: " \o Get(fn.arg.error)

\* C11 as amended: the fallback is the answer when the result is successful
\* and its answer is non-empty, "No response from agent." when it is
\* successful and its answer is empty, and "Error: <error>" when it is not
\* successful.
C11_FallbackWithDefault ==
    (fn.name = "fallback_text" /\ fn.done) =>
        fn.out = IF fn.arg.error # None THEN "Error: " \o Get(fn.arg.error)
                 ELSE IF fn.arg.answer # "" THEN fn.arg.answer
                 ELSE "No response from agent."

C11_Witness ==
    /\ fn.name = "fallback_text" /\ fn.done
    /\ fn.arg.error = None
    /\ fn.arg.answer = ""
    /\ fn.out = "No response from agent."

\* C12: for an app_mention event whose text is empty once the bot mention is
\* removed and the rest trimmed, the handler posts one message, the static
\* prompt, to the thread anchor and does nothing else: no acknowledgment, no
\* query call, no upload, and the stored history and the client are unchanged.
C12_EmptyMentionPromptOnly ==
    [][(/\ last'.op = "handle_mention"
        /\ Strip(RemoveAll(last'.event.text, "<@" \o BotUserId \o ">")) = "")
       => /\ (last'.outcome = "returned" =>
                 last'.effects =
                     << SayEffect(PromptText, None,
                                  IF last'.event.thread_ts # None
                                  THEN Get(last'.event.thread_ts)
                                  ELSE last'.event.ts) >>)
          /\ (last'.outcome = "raised" => last'.effects = << >>)
          /\ thread_history' = thread_history
          /\ connection' = connection
          /\ session_token' = session_token
          /\ conns' = conns
      ]_vars

C12_Witness ==
    /\ last.op = "handle_mention"
    /\ last.event.text = "<@U1> "
    /\ last.outcome = "returned"
    /\ Len(last.effects) = 1
    /\ last.effects[1].text = PromptText
    /\ TotalTurns > 0

\* C13: a message event whose channel type is not "im", or that carries a
\* bot_id, or whose text is blank, makes the handler post nothing, call no
\* query and change no stored state; a query is issued only for an event that
\* passes the three gates.
C13_MessageGates ==
    [][last'.op = "handle_message" =>
          LET e == last'.event
              gated == \/ e.channel_type # "im"
                       \/ e.bot_id # None
                       \/ Strip(e.text) = ""
          IN /\ (gated =>
                    /\ last'.effects = << >>
                    /\ last'.outcome = "returned"
                    /\ thread_history' = thread_history
                    /\ connection' = connection
                    /\ session_token' = session_token
                    /\ conns' = conns)
             /\ ((\E i \in 1..Len(last'.effects) : last'.effects[i].kind = "query")
                   => ~gated)
      ]_vars

C13_Witness ==
    /\ last.op = "handle_message"
    /\ last.event.channel_type = "im"
    /\ last.event.bot_id # None
    /\ last.event.text = "q1"
    /\ last.effects = << >>
    /\ TotalTurns > 0

\* C14: for a successful QueryResult, format_response emits, when sql is
\* present, a divider immediately followed by a section holding
\* ":mag: *Generated SQL*" and the SQL text (the claim's code fence around it
\* is left out: no section with the SQL exists to carry one), and, when
\* data is non-empty, a divider immediately followed by a section holding
\* ":bar_chart: *Results*".
C14_InlineSqlAndResults ==
    (fn.name = "format_response" /\ fn.done /\ fn.arg.error = None) =>
        LET RECURSIVE Contains(_, _)
            Contains(text, part) ==
                /\ Len(text) >= Len(part)
                /\ \/ SubSeq(text, 1, Len(part)) = part
                   \/ Contains(SubSeq(text, 2, Len(text)), part)
            SectionAfterDivider(i) ==
                /\ fn.out[i] = Divider
                /\ fn.out[i + 1].type = "section"
        IN /\ (fn.arg.sql # None =>
                  \E i \in 1..(Len(fn.out) - 1) :
                      /\ SectionAfterDivider(i)
                      /\ Contains(fn.out[i + 1].text.text, ":mag: *Generated SQL*")
                      /\ Contains(fn.out[i + 1].text.text, Get(fn.arg.sql)))
           /\ (fn.arg.data # << >> =>
                  \E i \in 1..(Len(fn.out) - 1) :
                      /\ SectionAfterDivider(i)
                      /\ Contains(fn.out[i + 1].text.text, ":bar_chart: *Results*"))

\* C15: for a successful QueryResult with a non-empty answer of length n, the
\* first block format_response emits is a section whose text is the answer
\* unchanged when n <= 3000 and its first 3000 characters followed by "..."
\* when n > 3000.
C15_TruncatesAt3000 ==
    (/\ fn.name = "format_response" /\ fn.done
     /\ fn.arg.error = None /\ fn.arg.answer # "") =>
        /\ Len(fn.out) >= 1
        /\ fn.out[1] =
               [type |-> "section",
                text |-> [type |-> "mrkdwn",
                          text |-> IF Len(fn.arg.answer) <= 3000
                                   THEN fn.arg.answer
                                   ELSE SubSeq(fn.arg.answer, 1, 3000) \o "..."]]

\* C15 as amended: the first block is a section whose text is the answer
\* unchanged when n <= 2900 and its first 2900 characters followed by "..."
\* when n > 2900.
C15_TruncatesAt2900 ==
    (/\ fn.name = "format_response" /\ fn.done
     /\ fn.arg.error = None /\ fn.arg.answer # "") =>
        /\ Len(fn.out) >= 1
        /\ fn.out[1] =
               [type |-> "section",
                text |-> [type |-> "mrkdwn",
                          text |-> IF Len(fn.arg.answer) <= 2900
                                   THEN fn.arg.answer
                                   ELSE SubSeq(fn.arg.answer, 1, 2900) \o "..."]]

C15_Witness ==
    /\ fn.name = "format_response" /\ fn.done
    /\ fn.arg.error = None
    /\ Len(fn.arg.answer) = 2901
    /\ Len(fn.out) = 1
    /\ Len(fn.out[1].text.text) = 2903

C17_ExitStatus ==
    (mainPc = "exited" /\ mainFault # None) =>
        /\ exitStatus # None
        /\ ((Get(mainFault).phase = "serving"
             /\ Get(mainFault).kind = "KeyboardInterrupt") =>
               exitStatus = Some(0) /\ Get(mainFault).handled)
        /\ (Get(mainFault).kind = "Exception" =>
               exitStatus = Some(1) /\ Get(mainFault).handled)

C17_Witness ==
    /\ mainPc = "exited"
    /\ mainFault = Some([phase |-> "serving", kind |-> "Exception", handled |-> TRUE])
    /\ exitStatus = Some(1)
    /\ last.op = "close"
    /\ last.closes = 1

\* C18: with callers inside _get_connection at the same time the open path is
\* unguarded.  A caller that finds no connection, or a closed one, at line 39
\* goes on to connect, and once there it opens a connection whatever the
\* client holds by then; a connection that is neither the one the client
\* references nor still to be stored by its opener is never referenced again
\* and close() is never called on it.
C18_UnguardedOpenLeaks ==
    [][/\ \A t \in Callers :
             /\ (callers[t].pc = "idle" /\ callers'[t].pc # "idle") =>
                    (callers'[t].pc = "connect"
                        <=> (connection = None \/ ~conns[Get(connection)].open))
             /\ (callers[t].pc = "connect" /\ callers'[t].pc = "assign") =>
                    /\ Len(conns') = Len(conns) + 1
                    /\ conns'[Len(conns')].open
       /\ \A id \in 1..Len(conns) :
             (/\ connection # Some(id)
              /\ \A t \in Callers : callers[t].pending # Some(id)) =>
                 /\ connection' # Some(id)
                 /\ conns'[id].closes = conns[id].closes
      ]_vars

C18_Witness ==
    /\ \A t \in Callers : callers[t].pc = "idle"
    /\ last.op = "close"
    /\ last.closes = 1
    /\ connection = None
    /\ Len(conns) = 2
    /\ conns[1].open /\ conns[1].closes = 0
    /\ ~conns[2].open /\ conns[2].closes = 1

\* C19: when an assistant message carries several tool-result entries, the
\* sql of the parsed result is the sql of the last entry whose payload has an
\* sql key; an entry without one leaves an sql collected earlier in place.
C19_SqlOfLastEntryWithSql ==
    (/\ fn.name = "parse_response" /\ fn.done
     /\ fn.arg.k = "obj"
     /\ "messages" \in DOMAIN fn.arg.f
     /\ fn.arg.f.messages.k = "arr"
     /\ Len(fn.arg.f.messages.a) = 1
     /\ fn.arg.f.messages.a[1].f.role = JStr("assistant")
     /\ \A i \in 1..Len(fn.arg.f.messages.a[1].f.content.a) :
            fn.arg.f.messages.a[1].f.content.a[i].f.type = JStr("tool_results")) =>
        LET RECURSIVE Entries(_)
            Entries(items) ==
                IF items = << >> THEN << >>
                ELSE Head(items).f.tool_results.a \o Entries(Tail(items))
            entries == Entries(fn.arg.f.messages.a[1].f.content.a)
            withSql == {i \in 1..Len(entries) : "sql" \in DOMAIN entries[i].f.content.f}
            lastWithSql == CHOOSE i \in withSql : \A j \in withSql : j <= i
        IN /\ fn.out.error = None
           /\ fn.out.sql = IF withSql = {} THEN None
                           ELSE Some(entries[lastWithSql].f.content.f.sql.s)

C21_FailedExchangeNotStored ==
    [][(/\ last'.op \in {"handle_mention", "handle_message"}
        /\ last'.result # None
        /\ Get(last'.result).error # None)
       => thread_history' = thread_history
      ]_vars

\* C22: the cached session token is tied to the live connection: a cached
\* token implies a held connection, and no query presents a token generated on
\* a connection that close() has closed since, or that _get_connection has
\* found closed since (here: the execute_sql just before found it closed and
\* could not reconnect).
C22_TokenTiedToLiveConnection ==
    [][/\ (session_token' # None => connection' # None)
       /\ (last'.op = "query" /\ last'.request # None) =>
              LET id == Get(last'.request).bearer.conn
                  foundClosed ==
                      /\ last.op = "execute_sql"
                      /\ last.connects = 1
                      /\ last.outcome = "raised"
                      /\ last.cursorsObtained = 0
                      /\ connection = Some(id)
                      /\ ~conns[id].open
              IN id \in 1..Len(conns) =>
                     /\ conns[id].closes = 0
                     /\ ~foundClosed
      ]_vars

\* C23: every cursor opened while a session token is generated is closed
\* before _get_session_token returns or raises, also when the token statement
\* fails and when it returns no row.
C23_TokenCursorClosed ==
    last.op = "query" => last.cursorsClosed = last.cursorsObtained

\* C24: whenever no handler is in progress, the stored history of every
\* thread is a sequence of complete exchanges: user turn, assistant turn,
\* user turn, assistant turn, ...; also when events of the same thread are
\* handled at the same time.
C24_HistoryAlternates ==
    (\A t \in Callers : callers[t].pc = "idle") =>
        \A a \in Anchors :
            /\ Len(thread_history[a]) % 2 = 0
            /\ \A i \in 1..Len(thread_history[a]) :
                   thread_history[a][i].role =
                       IF i % 2 = 1 THEN "user" ELSE "assistant"

====
